---- MODULE Spec2Model ----
(***************************************************************************)
(* CompositeParamScheduler (classy_vision/optim/param_scheduler/           *)
(* composite_scheduler.py): construction from a configuration              *)
(* (from_config) and evaluation (__call__).                                *)
(*                                                                         *)
(* Numbers.  The program computes with Python floats.  The model computes  *)
(* with exact fixed-point numbers: an integer v stands for the real number *)
(* v / ONE, and the grid has Res points per WHERE_EPSILON, so that values  *)
(* that differ by less than the epsilon can be told apart.  The quotient   *)
(* of line 142 is kept as an exact fraction [num, den].  Floating-point    *)
(* rounding is therefore not modelled; everything stated below is about    *)
(* the arithmetic the code asks for, carried out exactly.                  *)
(***************************************************************************)
EXTENDS Integers, Sequences, FiniteSets, TLC

\* Grid points per WHERE_EPSILON (resolution of the fixed-point grid).
Res == 2

\* Largest number of entries of a list of the configuration.
MaxSegments == 3

\* ClassyParamScheduler.WHERE_EPSILON (1e-6), inherited from the base class.
WHERE_EPSILON == Res

\* The float 1.0 of lines 87, 89, 90.
ONE == 1000000 * WHERE_EPSILON

\* The float 1e-3 of line 87.
TOLERANCE == 1000 * WHERE_EPSILON

Abs(x) == IF x < 0 THEN -x ELSE x

RECURSIVE Sum(_)
\* Python's sum() over a list.
Sum(s) == IF s = <<>> THEN 0 ELSE Sum(SubSeq(s, 1, Len(s) - 1)) + s[Len(s)]

\* s[:-1]
AllButLast(s) == SubSeq(s, 1, Len(s) - 1)

(***************************************************************************)
(* Inputs.                                                                 *)
(***************************************************************************)

\* Candidate segment lengths: 0, half an epsilon, 0.2, 0.3, 0.5, 0.501,
\* 0.7001 and 1.0 less half an epsilon.
LengthValues ==
    { 0, 1, ONE \div 5, 3 * (ONE \div 10), ONE \div 2, 501 * (ONE \div 1000),
      7001 * (ONE \div 10000), ONE - 1 }

RECURSIVE SeqsUpTo(_, _)
SeqsUpTo(S, n) ==
    IF n = 0 THEN { <<>> }
    ELSE LET shorter == SeqsUpTo(S, n - 1)
         IN  shorter \cup { Append(s, v) : s \in { t \in shorter : Len(t) = n - 1 }, v \in S }

LengthLists == SeqsUpTo(LengthValues, MaxSegments)

\* Progress values in [0, 1): 0, segment boundaries, the grid points right
\* below them, 0.6 and the last grid point below 1.0.
WhereValues ==
    { 0, 1, 3 * (ONE \div 10) - 1, 3 * (ONE \div 10), ONE \div 2 - 1, ONE \div 2,
      6 * (ONE \div 10), ONE - 1 }

\* The configuration of the k-th sub-scheduler: an opaque dict.
SubConfig(k) == [name |-> k, num_epochs |-> {}]

SchedulerConfigs(n) == [k \in 1..n |-> SubConfig(k)]

\* interval_scaling lists tried for n schedulers.
ScalingLists(n) ==
    { [k \in 1..n |-> "rescaled"],
      [k \in 1..n |-> "fixed"],
      [k \in 1..n |-> IF k % 2 = 1 THEN "fixed" ELSE "rescaled"],
      [k \in 1..n |-> IF k % 2 = 1 THEN "rescaled" ELSE "fixed"],
      [k \in 1..n |-> IF k = n THEN "bogus" ELSE "rescaled"],
      [k \in 1..(n + 1) |-> "rescaled"] }

\* An optional value is a set with at most one element.
UpdateIntervalChoices == { {}, {"step"}, {"epoch"}, {"bogus"} }

NumEpochsChoices == { {}, {90} }

ScalingChoices(n) == { {} } \cup { {sc} : sc \in ScalingLists(n) }

\* The only element of a one-element set.
The(S) == CHOOSE x \in S : TRUE

\* A configuration dict: the keys it holds and their values (a key that is
\* not held has the empty value).
MakeConfig(ls, n, ui, sc, ne) ==
    [ keys |-> {"schedulers", "lengths"}
                 \cup (IF ui = {} THEN {} ELSE {"update_interval"})
                 \cup (IF sc = {} THEN {} ELSE {"interval_scaling"})
                 \cup (IF ne = {} THEN {} ELSE {"num_epochs"}),
      schedulers |-> SchedulerConfigs(n),
      lengths |-> ls,
      update_interval |-> ui,
      interval_scaling |-> sc,
      num_epochs |-> ne ]

\* The scheduler counts tried with a lengths list: as many, and another count.
SchedulerCounts(ls) == { Len(ls), MaxSegments - Len(ls) }

\* A dict without the key k.
WithoutKey(cfg, k) == [cfg EXCEPT !.keys = @ \ {k}]

(***************************************************************************)
(* from_config                                                             *)
(***************************************************************************)

\* Variant of LengthsSumOk: the tolerance is inclusive.
LengthsSumOkInclusive(ls) == Abs(Sum(ls) - ONE) <= TOLERANCE

\* line 87: abs(sum(config["lengths"]) - 1.0) < 1e-3
LengthsSumOk(ls) == Abs(Sum(ls) - ONE) < TOLERANCE

\* Variant of CorrectedLengths: the last entry is 1.0 minus the sum of the
\* whole list.
CorrectedLengthsFromTotal(ls) ==
    IF Sum(ls) # ONE
    THEN [ls EXCEPT ![Len(ls)] = ONE - Sum(ls)]
    ELSE ls

\* lines 89-90: the lengths list after the correction of its last entry.
CorrectedLengths(ls) ==
    IF Sum(ls) # ONE
    THEN [ls EXCEPT ![Len(ls)] = ONE - Sum(AllButLast(ls))]
    ELSE ls

\* line 97: UpdateInterval[config["update_interval"].upper()]
UpdateIntervalOf(str) == IF str = "step" THEN "STEP" ELSE "EPOCH"

\* line 108: cls.IntervalScaling[interval_scale.upper()]
IntervalScalingOf(str) == IF str = "fixed" THEN "FIXED" ELSE "RESCALED"

\* lines 113-117: dict(schedule, **{"num_epochs": config["num_epochs"]})
WithNumEpochs(schedule, ne) == [schedule EXCEPT !.num_epochs = ne]

\* build_param_scheduler: the scheduler built from a sub-configuration.
build_param_scheduler(schedule) == [built |-> schedule]

\* The value of the attributes before __init__ has run.
NoComposite ==
    [ update_interval |-> "", _lengths |-> <<>>, _schedulers |-> <<>>,
      _interval_scaling |-> <<>> ]

\* An AssertionError raised with the config as it is at that point.
Raise(cfg, msg) == [raised |-> msg, config |-> cfg, self |-> NoComposite]

\* lines 77-125: the outcome of from_config(cfg): the message of the
\* assertion that failed ("" when none did), the caller's dict after the
\* call, and the instance returned.
from_config(cfg) ==
    IF ~({"schedulers", "lengths"} \subseteq cfg.keys)
    THEN Raise(cfg, "Composite scheduler needs both a list of schedulers and lengths")
    ELSE IF Len(cfg.schedulers) # Len(cfg.lengths)
    THEN Raise(cfg, "Schedulers and lengths must be same length")
    ELSE IF ~(Len(cfg.schedulers) > 0)
    THEN Raise(cfg, "There must be at least one scheduler in the composite scheduler")
    ELSE IF ~LengthsSumOk(cfg.lengths)
    THEN Raise(cfg, "The sum of all values in lengths must be 1")
    ELSE
      LET cfg1 == [cfg EXCEPT !.lengths = CorrectedLengths(@)]
      IN
      IF "update_interval" \in cfg1.keys /\ The(cfg1.update_interval) \notin {"step", "epoch"}
      THEN Raise(cfg1, "Choices for update interval are 'step' or 'epoch'")
      ELSE
        LET update_interval ==
              IF "update_interval" \in cfg1.keys
              THEN UpdateIntervalOf(The(cfg1.update_interval))
              ELSE "STEP"
            given == IF "interval_scaling" \in cfg1.keys
                     THEN The(cfg1.interval_scaling) ELSE <<>>
        IN
        IF "interval_scaling" \in cfg1.keys /\ Len(cfg1.schedulers) # Len(given)
        THEN Raise(cfg1, "Schedulers and interval scaling must be the same length")
        ELSE IF "interval_scaling" \in cfg1.keys
                /\ \E k \in 1..Len(given) : given[k] \notin {"fixed", "rescaled"}
        THEN Raise(cfg1, "Choices for interval scaline are 'fixed' or 'rescaled'")
        ELSE
          LET interval_scaling ==
                IF "interval_scaling" \in cfg1.keys
                THEN [k \in 1..Len(given) |-> IntervalScalingOf(given[k])]
                ELSE [k \in 1..Len(cfg1.schedulers) |-> "RESCALED"]
              cfg2 ==
                IF "num_epochs" \in cfg1.keys
                THEN [cfg1 EXCEPT !.schedulers =
                        [k \in 1..Len(@) |-> WithNumEpochs(@[k], cfg1.num_epochs)]]
                ELSE cfg1
          IN  [ raised |-> "",
                config |-> cfg2,
                self |-> [ update_interval |-> update_interval,
                           _lengths |-> cfg2.lengths,
                           _schedulers |-> [k \in 1..Len(cfg2.schedulers) |->
                                              build_param_scheduler(cfg2.schedulers[k])],
                           _interval_scaling |-> interval_scaling ] ]

(***************************************************************************)
(* State                                                                   *)
(***************************************************************************)
VARIABLES
    config,         \* the caller's configuration dict
    config0,        \* the configuration as the caller built it (history)
    pc,             \* "config", "failed", "idle", "loop", "selected", "returned", "raised"
    raised,         \* the message of the error from_config raised, or ""
    self,           \* the attributes of the instance
    where,          \* __call__: the argument
    i,              \* __call__: local i (0-based, as in the code)
    running_total,  \* __call__: local running_total
    advances,       \* __call__: executions of the loop body (history)
    calls,          \* __call__: the sub-scheduler calls made (history)
    result,         \* __call__: the value returned
    last            \* the previous completed evaluation (history)

vars == << config, config0, pc, raised, self, where, i, running_total,
           advances, calls, result, last >>

call_vars == << where, i, running_total, advances, calls, result >>

NoResult == [sched |-> 0, at |-> [num |-> 0, den |-> 1]]

NoLast == [valid |-> FALSE, where |-> 0, i |-> 0, at |-> [num |-> 0, den |-> 1]]

IdleLocals ==
    /\ where = 0
    /\ i = 0
    /\ running_total = 0
    /\ advances = 0
    /\ calls = <<>>
    /\ result = NoResult

Init ==
    /\ \/ \E ls \in LengthLists, ui \in UpdateIntervalChoices, ne \in NumEpochsChoices :
            \E n \in SchedulerCounts(ls) :
               \E sc \in ScalingChoices(n) :
                  config = MakeConfig(ls, n, ui, sc, ne)
       \/ \E n \in 1..MaxSegments :
            config = WithoutKey(MakeConfig(<<>>, n, {}, {}, {}), "lengths")
       \/ \E ls \in { l \in LengthLists : Len(l) = 1 } :
            config = WithoutKey(MakeConfig(ls, 0, {}, {}, {}), "schedulers")
    /\ config0 = config
    /\ pc = "config"
    /\ raised = ""
    /\ self = NoComposite
    /\ last = NoLast
    /\ IdleLocals

\* CompositeParamScheduler.from_config(config)
FromConfig ==
    /\ pc = "config"
    /\ LET out == from_config(config)
       IN  /\ config' = out.config
           /\ raised' = out.raised
           /\ self' = out.self
           /\ pc' = IF out.raised = "" THEN "idle" ELSE "failed"
    /\ UNCHANGED << config0, last, call_vars >>

\* Variant of LoopCondition: the comparison has no epsilon.
LoopConditionNoEpsilon(w, total, idx, n) == w > total /\ idx < n - 1

\* Variant of LoopCondition: the epsilon is subtracted.
LoopConditionEpsilonSubtracted(w, total, idx, n) ==
    (w - WHERE_EPSILON) > total /\ idx < n - 1

\* line 131: (where + self.WHERE_EPSILON) > running_total and i < len(self._schedulers) - 1
LoopCondition(w, total, idx, n) == (w + WHERE_EPSILON) > total /\ idx < n - 1

\* Variant of SchedulerStart: the segment's length is not subtracted.
SchedulerStartIsTotal(total, len) == total

\* line 141: scheduler_start = running_total - self._lengths[i]
SchedulerStart(total, len) == total - len

\* Variant of SchedulerWhere: every segment is rescaled.
SchedulerWhereAlwaysRescaled(scale, w, total, len) ==
    [num |-> w - (total - len), den |-> len]

\* lines 137-142: the value passed to the sub-scheduler, as a fraction.
SchedulerWhere(scale, w, total, len) ==
    IF scale = "RESCALED"
    THEN [num |-> w - SchedulerStart(total, len), den |-> len]
    ELSE [num |-> w, den |-> ONE]

\* The value a sub-scheduler returns for a progress value: opaque, and
\* determined by the scheduler and the progress value.
SubSchedulerValue(scheduler, at) == [sched |-> scheduler.built.name, at |-> at]

\* lines 127-130: __call__(where) is entered
Call(w) ==
    /\ pc = "idle"
    /\ pc' = "loop"
    /\ where' = w
    /\ i' = 0
    /\ running_total' = self._lengths[1]
    /\ advances' = 0
    /\ calls' = <<>>
    /\ result' = NoResult
    /\ UNCHANGED << config, config0, raised, self, last >>

\* Variant of Advance: the running total is kept in the lengths list.
AdvanceInPlace ==
    /\ pc = "loop"
    /\ LoopCondition(where, running_total, i, Len(self._schedulers))
    /\ i' = i + 1
    /\ running_total' = running_total + self._lengths[i' + 1]
    /\ self' = [self EXCEPT !._lengths[i' + 1] = running_total']
    /\ advances' = advances + 1
    /\ UNCHANGED << config, config0, pc, raised, where, calls, result, last >>

\* lines 131-135: one execution of the loop body
Advance ==
    /\ pc = "loop"
    /\ LoopCondition(where, running_total, i, Len(self._schedulers))
    /\ i' = i + 1
    /\ running_total' = running_total + self._lengths[i' + 1]
    /\ advances' = advances + 1
    /\ UNCHANGED << config, config0, pc, raised, self, where, calls, result, last >>

\* lines 136-143: the loop has ended; the sub-scheduler is called, unless
\* the division of line 142 raises ZeroDivisionError.
Dispatch ==
    /\ pc = "loop"
    /\ ~LoopCondition(where, running_total, i, Len(self._schedulers))
    /\ LET scheduler == self._schedulers[i + 1]
           interval_scale == self._interval_scaling[i + 1]
           len == self._lengths[i + 1]
       IN  \/ /\ interval_scale = "RESCALED" /\ len = 0
              /\ pc' = "zerodivision"
              /\ UNCHANGED << calls, result >>
           \/ /\ ~(interval_scale = "RESCALED" /\ len = 0)
              /\ LET scheduler_where == SchedulerWhere(interval_scale, where, running_total, len)
                 IN  /\ calls' = Append(calls, [sched |-> i, at |-> scheduler_where])
                     /\ result' = SubSchedulerValue(scheduler, scheduler_where)
              /\ pc' = "returned"
    /\ UNCHANGED << config, config0, raised, self, where, i, running_total, advances, last >>

\* The caller has the value (or the error); the instance is ready for the
\* next evaluation.
Return ==
    /\ pc \in {"returned", "zerodivision"}
    /\ pc' = "idle"
    /\ last' = IF pc = "returned"
               THEN [valid |-> TRUE, where |-> where, i |-> i, at |-> calls[1].at]
               ELSE last
    /\ where' = 0
    /\ i' = 0
    /\ running_total' = 0
    /\ advances' = 0
    /\ calls' = <<>>
    /\ result' = NoResult
    /\ UNCHANGED << config, config0, raised, self >>

Next ==
    \/ FromConfig
    \/ \E w \in WhereValues : Call(w)
    \/ Advance
    \/ Dispatch
    \/ Return

Spec == Init /\ [][Next]_vars

(***************************************************************************)
(* Properties                                                              *)
(***************************************************************************)

\* from_config has returned an instance.
Constructed == pc \notin {"config", "failed"}

\* The selection loop of an evaluation has ended (line 136 was reached).
Selected == pc \in {"returned", "zerodivision"}

\* Number of segments of the instance.
N == Len(self._schedulers)

\* start_k: the sum of the lengths of segments 0..k-1 (k is 0-based).
Start(k) == Sum(SubSeq(self._lengths, 1, k))

\* The length of segment k (0-based).
Length(k) == self._lengths[k + 1]

\* The scaling mode of segment k (0-based).
Scaling(k) == self._interval_scaling[k + 1]

\* The lengths lists differ in length from the scheduler list.
ListsMismatch(cfg) ==
    \/ Len(cfg.schedulers) # Len(cfg.lengths)
    \/ /\ "interval_scaling" \in cfg.keys
       /\ Len(cfg.schedulers) # Len(The(cfg.interval_scaling))

\* Every length the instance holds is positive.
AllPositive == \A k \in 0..(N - 1) : Length(k) > 0

C5_FixedPassesWhere ==
    (pc = "returned" /\ Scaling(i) = "FIXED") =>
        calls = << [sched |-> i, at |-> [num |-> where, den |-> ONE]] >>

\* C5 witness: lengths [0.5, 0.5], both FIXED, where = 0.6: the second
\* scheduler was passed 0.6.
C5_Witness ==
    /\ pc = "returned"
    /\ self._lengths = << ONE \div 2, ONE \div 2 >>
    /\ self._interval_scaling = << "FIXED", "FIXED" >>
    /\ where = 6 * (ONE \div 10)
    /\ calls = << [sched |-> 1, at |-> [num |-> 6 * (ONE \div 10), den |-> ONE]] >>

C7_LengthsPositive == Constructed => AllPositive

\* C8: an evaluation ends after at most N-1 executions of the loop body
\* with an index in 0..N-1, having called that segment's sub-scheduler
\* once and no other, and returns what it returned.
C8_OneCallResultUnchanged ==
    Constructed =>
        /\ advances <= N - 1
        /\ i \in 0..(N - 1)
        /\ Selected =>
              /\ pc = "returned"
              /\ Len(calls) = 1
              /\ calls[1].sched = i
              /\ result = SubSchedulerValue(self._schedulers[i + 1], calls[1].at)

\* C9: evaluations leave the instance as from_config built it, and an
\* evaluation with the where of the previous one selects the same segment
\* and passes it the same value.
C9_EvaluationIsPure ==
    Constructed =>
        /\ self = from_config(config0).self
        /\ (pc = "returned" /\ last.valid /\ last.where = where) =>
              (last.i = i /\ last.at = calls[1].at)

\* C9 witness: a second evaluation with the same where has selected a
\* later segment, again.
C9_Witness ==
    /\ pc = "returned"
    /\ last.valid
    /\ last.where = where
    /\ i > 0
    /\ advances > 0

\* C10: a construction that fails leaves the lengths and the scheduler
\* list of the caller's configuration as they were.
C10_FailureLeavesConfig ==
    pc = "failed" =>
        /\ config.lengths = config0.lengths
        /\ config.schedulers = config0.schedulers
====
